---- MODULE Spec2Model ----
(***************************************************************************)
(* A model of the skill validator and packager: scripts/skill_utils.py,    *)
(* scripts/validate_skill.py and scripts/package_skill.py.                 *)
(*                                                                         *)
(* Text is a sequence of one-character strings.  A YAML value is a record  *)
(* [t, v] tagged with its Python type.  A path is a sequence of            *)
(* components, each component a text.  The file system maps the absolute   *)
(* paths that exist to their nodes.                                        *)
(***************************************************************************)
EXTENDS Integers, Sequences, FiniteSets, TLC

VARIABLES fs, pre, cwd, platform, call, ret

vars == <<fs, pre, cwd, platform, call, ret>>

(***************************************************************************)
(* Bounds of the model.                                                    *)
(***************************************************************************)
\* Longest text drawn character by character for the field validators.
MaxCore == 3

(***************************************************************************)
(* Text helpers (Python str operations).                                   *)
(***************************************************************************)
LowerSeq ==
    <<"a","b","c","d","e","f","g","h","i","j","k","l","m",
      "n","o","p","q","r","s","t","u","v","w","x","y","z">>

UpperSeq ==
    <<"A","B","C","D","E","F","G","H","I","J","K","L","M",
      "N","O","P","Q","R","S","T","U","V","W","X","Y","Z">>

Lowercase == {LowerSeq[i] : i \in 1..26}

Digits == {"0","1","2","3","4","5","6","7","8","9"}

\* str.isspace() for the characters of the model's alphabets.
Whitespace == {" ", "\t", "\n", "\r"}

\* c.lower() for one character.
LowerChar(c) ==
    IF \E i \in 1..26 : UpperSeq[i] = c
    THEN LowerSeq[CHOOSE i \in 1..26 : UpperSeq[i] = c]
    ELSE c

\* s.lower()
Lower(s) == [i \in 1..Len(s) |-> LowerChar(s[i])]

\* sub in s
Contains(s, sub) ==
    \E i \in 1..(Len(s) - Len(sub) + 1) : SubSeq(s, i, i + Len(sub) - 1) = sub

\* s.startswith(p)
StartsWith(s, p) == Len(s) >= Len(p) /\ SubSeq(s, 1, Len(p)) = p

\* s.endswith(p)
EndsWith(s, p) ==
    Len(s) >= Len(p) /\ SubSeq(s, Len(s) - Len(p) + 1, Len(s)) = p

\* not s.strip(): s is empty or whitespace only
IsBlank(s) == \A i \in 1..Len(s) : s[i] \in Whitespace

\* s.strip()
Strip(s) ==
    IF IsBlank(s) THEN <<>>
    ELSE LET a == CHOOSE i \in 1..Len(s) :
                      s[i] \notin Whitespace /\ \A j \in 1..(i-1) : s[j] \in Whitespace
             b == CHOOSE i \in 1..Len(s) :
                      s[i] \notin Whitespace
                      /\ \A j \in (i+1)..Len(s) : s[j] \in Whitespace
         IN SubSeq(s, a, b)

\* c * n
Pad(c, n) == [i \in 1..n |-> c]

\* ", ".join(parts), parts being texts
RECURSIVE Join(_, _)
Join(parts, sep) ==
    IF parts = <<>> THEN <<>>
    ELSE IF Len(parts) = 1 THEN parts[1]
    ELSE parts[1] \o sep \o Join(Tail(parts), sep)

\* s.split(sep) for a one-character separator
RECURSIVE Split(_, _)
Split(s, sep) ==
    IF \E i \in 1..Len(s) : s[i] = sep
    THEN LET k == CHOOSE i \in 1..Len(s) :
                      s[i] = sep /\ \A j \in 1..(i-1) : s[j] # sep
         IN <<SubSeq(s, 1, k - 1)>> \o Split(SubSeq(s, k + 1, Len(s)), sep)
    ELSE <<s>>

(***************************************************************************)
(* YAML values as Python objects.                                          *)
(***************************************************************************)
StrV(s) == [t |-> "str", v |-> s]
IntV(n) == [t |-> "int", v |-> n]
BoolV(b) == [t |-> "bool", v |-> b]
NullV == [t |-> "null", v |-> 0]
ListV(xs) == [t |-> "list", v |-> xs]
MapV(kvs) == [t |-> "map", v |-> kvs]

\* bool(x)
Truthy(x) ==
    CASE x.t = "str" -> x.v # <<>>
      [] x.t = "int" -> x.v # 0
      [] x.t = "bool" -> x.v
      [] x.t = "null" -> FALSE
      [] x.t = "list" -> x.v # <<>>
      [] x.t = "map" -> x.v # <<>>

\* Whether len(x) is defined.
Sized(x) == x.t \in {"str", "list", "map"}

\* Whether hash(x) is defined (x can be looked up in a set).
Hashable(x) == x.t \notin {"list", "map"}

(***************************************************************************)
(* skill_utils.py: the field validators.  A validator returns              *)
(* [exc, ok, msg]: exc is "none" when it returned (ok, msg), else the      *)
(* exception that left it.                                                 *)
(***************************************************************************)
MaxNameLen == 64

MaxDescLen == 1024

Returned(ok, msg) == [exc |-> "none", ok |-> ok, msg |-> msg]

Raised(e) == [exc |-> e, ok |-> FALSE, msg |-> <<e>>]

NameClass == Lowercase \cup Digits \cup {"-"}

ANTHROPIC == <<"a","n","t","h","r","o","p","i","c">>

CLAUDE == <<"c","l","a","u","d","e">>

\* re.match(r"^[a-z0-9-]+$", s): one or more class characters from the
\* start, then "$", which matches at the end of the text and also just
\* before a newline that ends the text.
NameReMatch(s) ==
    \E k \in 1..Len(s) :
        /\ \A i \in 1..k : s[i] \in NameClass
        /\ \/ k = Len(s)
           \/ k = Len(s) - 1 /\ s[Len(s)] = "\n"

\* A mutant of validate_skill_name: the restricted terms are looked for
\* before the character class is tested.
validate_skill_name_reserved_first(name) ==
    IF ~Truthy(name) THEN Returned(FALSE, <<"Skill name is required">>)
    ELSE IF ~Sized(name) THEN Raised("TypeError")
    ELSE IF Len(name.v) > MaxNameLen
    THEN Returned(FALSE, <<"Skill name too long", Len(name.v), MaxNameLen>>)
    ELSE IF name.t # "str" THEN Raised("TypeError")
    ELSE IF Contains(name.v, ANTHROPIC) \/ Contains(name.v, CLAUDE)
    THEN Returned(FALSE, <<"Skill name cannot contain anthropic or claude">>)
    ELSE IF ~NameReMatch(name.v)
    THEN Returned(FALSE, <<"Skill name must be lowercase with hyphens only (a-z, 0-9, -)">>)
    ELSE IF Contains(name.v, <<"<">>) \/ Contains(name.v, <<">">>)
    THEN Returned(FALSE, <<"Skill name cannot contain XML tags">>)
    ELSE Returned(TRUE, <<>>)

\* validate_skill_name(name)
validate_skill_name(name) ==
    IF ~Truthy(name) THEN Returned(FALSE, <<"Skill name is required">>)
    ELSE IF ~Sized(name) THEN Raised("TypeError")
    ELSE IF Len(name.v) > MaxNameLen
    THEN Returned(FALSE, <<"Skill name too long", Len(name.v), MaxNameLen>>)
    ELSE IF name.t # "str" THEN Raised("TypeError")
    ELSE IF ~NameReMatch(name.v)
    THEN Returned(FALSE, <<"Skill name must be lowercase with hyphens only (a-z, 0-9, -)">>)
    ELSE IF Contains(name.v, ANTHROPIC) \/ Contains(name.v, CLAUDE)
    THEN Returned(FALSE, <<"Skill name cannot contain anthropic or claude">>)
    ELSE IF Contains(name.v, <<"<">>) \/ Contains(name.v, <<">">>)
    THEN Returned(FALSE, <<"Skill name cannot contain XML tags">>)
    ELSE Returned(TRUE, <<>>)

\* re.search(r"<[^>]+>", s)
XmlTagSearch(s) ==
    \E i \in 1..Len(s) :
        /\ s[i] = "<"
        /\ \E j \in (i+2)..Len(s) :
              s[j] = ">" /\ \A k \in (i+1)..(j-1) : s[k] # ">"

\* A mutant of validate_skill_description: the length limit compared with
\* >= instead of >.
validate_skill_description_ge(description) ==
    IF ~Truthy(description) THEN Returned(FALSE, <<"Description is required">>)
    ELSE IF description.t # "str" THEN Raised("AttributeError")
    ELSE IF IsBlank(description.v)
    THEN Returned(FALSE, <<"Description cannot be only whitespace">>)
    ELSE IF Len(description.v) >= MaxDescLen
    THEN Returned(FALSE, <<"Description too long", Len(description.v), MaxDescLen>>)
    ELSE IF XmlTagSearch(description.v)
    THEN Returned(FALSE, <<"Description cannot contain XML tags">>)
    ELSE Returned(TRUE, <<>>)

\* validate_skill_description(description)
validate_skill_description(description) ==
    IF ~Truthy(description) THEN Returned(FALSE, <<"Description is required">>)
    ELSE IF description.t # "str" THEN Raised("AttributeError")
    ELSE IF IsBlank(description.v)
    THEN Returned(FALSE, <<"Description cannot be only whitespace">>)
    ELSE IF Len(description.v) > MaxDescLen
    THEN Returned(FALSE, <<"Description too long", Len(description.v), MaxDescLen>>)
    ELSE IF XmlTagSearch(description.v)
    THEN Returned(FALSE, <<"Description cannot contain XML tags">>)
    ELSE Returned(TRUE, <<>>)

(***************************************************************************)
(* The file system.  A node is [kind, data, exec, readable]; data is a     *)
(* pair <<tag, payload>>:                                                  *)
(*   <<"text", t>>      a UTF-8 file holding the text t                    *)
(*   <<"binary", <<>>>> a file that is not valid UTF-8                     *)
(*   <<"huge", <<>>>>   a file larger than read_file_safe's max_size       *)
(*   <<"zip", es>>      a ZIP archive with the entries es                  *)
(*   <<"json", m>>      a file holding json.dumps(m)                       *)
(*   <<"dir", <<>>>>    a directory                                        *)
(*   <<"link", p>>      a symbolic link to the absolute path p             *)
(***************************************************************************)
FileNode(tag, payload, exec) ==
    [kind |-> "file", data |-> <<tag, payload>>, exec |-> exec, readable |-> TRUE]

TextFile(t) == FileNode("text", t, FALSE)

DirNode == [kind |-> "dir", data |-> <<"dir", <<>>>>, exec |-> TRUE, readable |-> TRUE]

LinkNode(target) ==
    [kind |-> "link", data |-> <<"link", target>>, exec |-> TRUE, readable |-> TRUE]

\* Path components the code names.
SKILL_MD == <<"S","K","I","L","L",".","m","d">>

README_MD == <<"R","E","A","D","M","E",".","m","d">>

MANIFEST_JSON == <<"m","a","n","i","f","e","s","t",".","j","s","o","n">>

SCRIPTS == <<"s","c","r","i","p","t","s">>

REFERENCES == <<"r","e","f","e","r","e","n","c","e","s">>

INIT_PY == <<"_","_","i","n","i","t","_","_",".","p","y">>

DOT_PY == <<".","p","y">>

DOT_MD == <<".","m","d">>

DOT_ZIP == <<".","z","i","p">>

DOTDOT == <<".",".">>

DOT == <<".">>

\* path.parent
Parent(p) == IF p = <<>> THEN <<>> ELSE SubSeq(p, 1, Len(p) - 1)

\* path.name
Name(p) == IF p = <<>> THEN <<>> ELSE p[Len(p)]

\* Whether path p lies at or below path base (PurePath.relative_to works).
IsUnder(p, base) == Len(p) >= Len(base) /\ SubSeq(p, 1, Len(base)) = base

\* p.relative_to(base), for p at or below base
RelativeTo(p, base) == SubSeq(p, Len(base) + 1, Len(p))

\* The path the operating system reaches for the components rel taken
\* from the directory base: "." and "" stay, ".." goes to the parent.
RECURSIVE Walk(_, _)
Walk(base, rel) ==
    IF rel = <<>> THEN base
    ELSE IF Head(rel) \in {DOT, <<>>} THEN Walk(base, Tail(rel))
    ELSE IF Head(rel) = DOTDOT THEN Walk(Parent(base), Tail(rel))
    ELSE Walk(Append(base, Head(rel)), Tail(rel))

\* The node a path names after following a symbolic link at its end;
\* <<>> paths are the root directory.
Resolve(f, p) ==
    IF p \in DOMAIN f /\ f[p].kind = "link" THEN f[p].data[2] ELSE p

\* path.exists()
Exists(f, p) == Resolve(f, p) \in DOMAIN f

\* path.is_file()
IsFile(f, p) == Exists(f, p) /\ f[Resolve(f, p)].kind = "file"

\* path.is_dir()
IsDir(f, p) == Exists(f, p) /\ f[Resolve(f, p)].kind = "dir"

\* The entries of directory d (d.iterdir()).
Children(f, d) == {p \in DOMAIN f : Len(p) = Len(d) + 1 /\ Parent(p) = d}

\* The entries at any depth below directory d (d.rglob("*")); symbolic
\* links are listed and not descended into.
Descendants(f, d) ==
    {p \in DOMAIN f :
        /\ Len(p) > Len(d)
        /\ IsUnder(p, d)
        /\ \A k \in (Len(d) + 1)..(Len(p) - 1) :
              SubSeq(p, 1, k) \in DOMAIN f /\ f[SubSeq(p, 1, k)].kind = "dir"}

\* A set of paths as a sequence, in a fixed order (the order in which the
\* operating system lists them within one run).
RECURSIVE Listing(_)
Listing(ps) ==
    IF ps = {} THEN <<>>
    ELSE LET p == CHOOSE q \in ps : TRUE
         IN <<p>> \o Listing(ps \ {p})

(***************************************************************************)
(* skill_utils.py: find_skill_file, read_file_safe, parse_skill_file.      *)
(***************************************************************************)
NoPath == <<<<"?">>, <<"none">>>>

\* find_skill_file(path): the SKILL.md path, or NoPath for None.
find_skill_file(f, path) ==
    IF ~Exists(f, path) THEN NoPath
    ELSE IF IsFile(f, path) /\ Name(path) = SKILL_MD THEN path
    ELSE IF IsDir(f, path) /\ Exists(f, Append(path, SKILL_MD))
    THEN Append(path, SKILL_MD)
    ELSE NoPath

\* read_file_safe(file_path): [exc, msg, text]; exc is "none" or
\* "SkillError".
read_file_safe(f, file_path) ==
    IF ~Exists(f, file_path)
    THEN [exc |-> "SkillError", msg |-> <<"File not found", file_path>>, text |-> <<>>]
    ELSE IF ~IsFile(f, file_path)
    THEN [exc |-> "SkillError", msg |-> <<"Not a file", file_path>>, text |-> <<>>]
    ELSE LET node == f[Resolve(f, file_path)]
         IN IF node.data[1] = "huge"
            THEN [exc |-> "SkillError", msg |-> <<"File too large">>, text |-> <<>>]
            ELSE IF ~node.readable
            THEN [exc |-> "SkillError", msg |-> <<"Error reading file", file_path>>,
                  text |-> <<>>]
            ELSE IF node.data[1] # "text"
            THEN [exc |-> "SkillError", msg |-> <<"File is not valid UTF-8", file_path>>,
                  text |-> <<>>]
            ELSE [exc |-> "none", msg |-> <<>>, text |-> node.data[2]]

(***************************************************************************)
(* The YAML of a header block.  A header line is one word of the           *)
(* vocabulary below (a string of several characters standing for that      *)
(* text) or single characters.  yaml.safe_load is PyYAML's; the model      *)
(* gives its result on this vocabulary.                                    *)
(***************************************************************************)
sk == <<"s","k">>

YamlEntries ==
    [w \in {"name: sk", "name: o", "name: My Skill", "name: ../e", "name: 5",
            "name: 0", "name: true", "name: ~", "name: [a]", "name: []",
            "name: {a: 1}", "name: \"sk\\n\"",
            "description: Does a thing.", "description: <b>x</b>",
            "description: 7", "description: false", "description: ~",
            "description: [a]", "description: {a: 1}",
            "tools: Read, Grep", "tools: Read, Fly", "tools: 3", "tools: true",
            "tools: ~", "tools: [Read]", "tools: {a: 1}",
            "model: opus", "model: gpt", "model: 4", "model: true", "model: ~",
            "model: [opus]", "model: {a: 1}",
            "version: 2", "author: me"} |->
        CASE w = "name: sk" -> <<"name", StrV(sk)>>
          [] w = "name: o" -> <<"name", StrV(<<"o">>)>>
          [] w = "name: My Skill" -> <<"name", StrV(<<"M","y"," ","S","k","i","l","l">>)>>
          [] w = "name: ../e" -> <<"name", StrV(<<".",".","/","e">>)>>
          [] w = "name: 5" -> <<"name", IntV(5)>>
          [] w = "name: 0" -> <<"name", IntV(0)>>
          [] w = "name: true" -> <<"name", BoolV(TRUE)>>
          [] w = "name: ~" -> <<"name", NullV>>
          [] w = "name: [a]" -> <<"name", ListV(<<StrV(<<"a">>)>>)>>
          [] w = "name: []" -> <<"name", ListV(<<>>)>>
          [] w = "name: {a: 1}" -> <<"name", MapV(<<<<"a", IntV(1)>>>>)>>
          [] w = "name: \"sk\\n\"" -> <<"name", StrV(<<"s","k","\n">>)>>
          [] w = "description: Does a thing." ->
                <<"description",
                  StrV(<<"D","o","e","s"," ","a"," ","t","h","i","n","g",".">>)>>
          [] w = "description: <b>x</b>" ->
                <<"description", StrV(<<"<","b",">","x","<","/","b",">">>)>>
          [] w = "description: 7" -> <<"description", IntV(7)>>
          [] w = "description: false" -> <<"description", BoolV(FALSE)>>
          [] w = "description: ~" -> <<"description", NullV>>
          [] w = "description: [a]" -> <<"description", ListV(<<StrV(<<"a">>)>>)>>
          [] w = "description: {a: 1}" -> <<"description", MapV(<<<<"a", IntV(1)>>>>)>>
          [] w = "tools: Read, Grep" ->
                <<"tools", StrV(<<"R","e","a","d",","," ","G","r","e","p">>)>>
          [] w = "tools: Read, Fly" ->
                <<"tools", StrV(<<"R","e","a","d",","," ","F","l","y">>)>>
          [] w = "tools: 3" -> <<"tools", IntV(3)>>
          [] w = "tools: true" -> <<"tools", BoolV(TRUE)>>
          [] w = "tools: ~" -> <<"tools", NullV>>
          [] w = "tools: [Read]" -> <<"tools", ListV(<<StrV(<<"R","e","a","d">>)>>)>>
          [] w = "tools: {a: 1}" -> <<"tools", MapV(<<<<"a", IntV(1)>>>>)>>
          [] w = "model: opus" -> <<"model", StrV(<<"o","p","u","s">>)>>
          [] w = "model: gpt" -> <<"model", StrV(<<"g","p","t">>)>>
          [] w = "model: 4" -> <<"model", IntV(4)>>
          [] w = "model: true" -> <<"model", BoolV(TRUE)>>
          [] w = "model: ~" -> <<"model", NullV>>
          [] w = "model: [opus]" ->
                <<"model", ListV(<<StrV(<<"o","p","u","s">>)>>)>>
          [] w = "model: {a: 1}" -> <<"model", MapV(<<<<"a", IntV(1)>>>>)>>
          [] w = "version: 2" -> <<"version", IntV(2)>>
          [] w = "author: me" -> <<"author", StrV(<<"m","e">>)>>]

DELIM == <<"-","-","-">>

\* Words that are YAML, and not a mapping entry.
YamlListItem == "- item"

YamlBroken == "key: [unclosed"

\* The mapping a sequence of entry lines denotes; a repeated key keeps its
\* last value.
RECURSIVE EntriesToMap(_)
EntriesToMap(lines) ==
    IF lines = <<>> THEN <<>>
    ELSE LET e == YamlEntries[lines[Len(lines)][1]]
             rest == EntriesToMap(SubSeq(lines, 1, Len(lines) - 1))
         IN (e[1] :> e[2]) @@ rest

\* yaml.safe_load(header): [exc, value]; value is [t |-> "map", v |-> m]
\* with m a function from keys to values, or a value of another type.  A
\* first line "---" marks the start of the document and is no part of it.
yaml_safe_load(header) ==
    LET all == SelectSeq(Split(header, "\n"), LAMBDA l : ~IsBlank(l))
        lines == IF all # <<>> /\ all[1] = DELIM THEN Tail(all) ELSE all
        IsEntry(l) == Len(l) = 1 /\ l[1] \in DOMAIN YamlEntries
        IsItem(l) == l = <<YamlListItem>>
        IsPlain(l) ==
            \A i \in 1..Len(l) :
                l[i] \notin DOMAIN YamlEntries \cup {YamlListItem, YamlBroken}
    IN  IF lines = <<>> THEN [exc |-> "none", value |-> NullV]
        ELSE IF \A i \in 1..Len(lines) : IsEntry(lines[i])
        THEN [exc |-> "none", value |-> [t |-> "map", v |-> EntriesToMap(lines)]]
        ELSE IF \A i \in 1..Len(lines) : IsItem(lines[i])
        THEN [exc |-> "none",
              value |-> ListV([i \in 1..Len(lines) |-> StrV(<<"i","t","e","m">>)])]
        ELSE IF Len(lines) = 1 /\ IsPlain(lines[1]) /\ lines[1] # DELIM
        THEN [exc |-> "none", value |-> StrV(lines[1])]
        ELSE [exc |-> "YAMLError", value |-> NullV]

\* re.match(r"^---\n(.*?)\n---\n(.*)$", content, re.DOTALL): the places k
\* where "\n---\n" starts after the opening "---\n"; the header block
\* ends before the first of them.
CloserPlaces(content) ==
    {k \in 5..(Len(content) - 4) :
        SubSeq(content, k, k + 4) = <<"\n">> \o DELIM \o <<"\n">>}

FrontmatterReMatch(content) ==
    /\ StartsWith(content, DELIM \o <<"\n">>)
    /\ CloserPlaces(content) # {}

FirstCloser(content) ==
    CHOOSE k \in CloserPlaces(content) : \A j \in CloserPlaces(content) : k <= j

\* parse_skill_file(content): [exc, msg, frontmatter, body]
ParseFailed(msg) ==
    [exc |-> "SkillValidationError", msg |-> msg, frontmatter |-> <<>>, body |-> <<>>]

parse_skill_file(content) ==
    IF IsBlank(content) THEN ParseFailed(<<"SKILL.md file is empty">>)
    ELSE IF ~StartsWith(content, DELIM)
    THEN ParseFailed(<<"SKILL.md must start with YAML frontmatter (---)">>)
    ELSE IF ~FrontmatterReMatch(content)
    THEN ParseFailed(<<"Invalid frontmatter format">>)
    ELSE LET k == FirstCloser(content)
             frontmatter_str == SubSeq(content, 5, k - 1)
             body == SubSeq(content, k + 5, Len(content))
             loaded == yaml_safe_load(frontmatter_str)
         IN IF loaded.exc # "none"
            THEN ParseFailed(<<"Invalid YAML in frontmatter">>)
            ELSE IF loaded.value.t # "map"
            THEN ParseFailed(<<"Frontmatter must be a YAML dictionary/object">>)
            ELSE [exc |-> "none", msg |-> <<>>,
                  frontmatter |-> loaded.value.v, body |-> Strip(body)]

(***************************************************************************)
(* validate_skill.py: validate_skill.  A ValidationResult is               *)
(* [exc, errors, warnings]; exc is "none" when validate_skill returned     *)
(* the result, else the exception it raised.  A message is a tuple that    *)
(* starts with its fixed text, followed by the values formatted into it.   *)
(***************************************************************************)
BodyMinLen == 100

Result(errors, warnings) == [exc |-> "none", errors |-> errors, warnings |-> warnings]

ResultRaised(e) == [exc |-> e, errors |-> <<>>, warnings |-> <<>>]

\* result.add_error(msg) if strict else result.add_warning(msg)
Escalating(strict, msg) ==
    IF strict THEN Result(<<msg>>, <<>>) ELSE Result(<<>>, <<msg>>)

NoEntries == Result(<<>>, <<>>)

\* The name check of validate_skill (lines 69-74).
CheckName(frontmatter) ==
    IF "name" \notin DOMAIN frontmatter
    THEN Result(<<<<"Required field missing from frontmatter", "name">>>>, <<>>)
    ELSE LET r == validate_skill_name(frontmatter["name"])
         IN IF r.exc # "none" THEN ResultRaised(r.exc)
            ELSE IF ~r.ok THEN Result(<<<<"Invalid skill name", r.msg>>>>, <<>>)
            ELSE NoEntries

\* The description check of validate_skill (lines 76-85).
CheckDescription(frontmatter) ==
    IF "description" \notin DOMAIN frontmatter
    THEN Result(<<<<"Required field missing from frontmatter", "description">>>>, <<>>)
    ELSE LET r == validate_skill_description(frontmatter["description"])
         IN IF r.exc # "none" THEN ResultRaised(r.exc)
            ELSE IF ~r.ok THEN Result(<<<<"Invalid description", r.msg>>>>, <<>>)
            ELSE NoEntries

expected_fields == {"name", "description", "tools", "model"}

\* The unexpected-fields check (lines 87-95); the sorted list of the
\* fields is given as their set.
CheckUnexpected(frontmatter, strict) ==
    LET unexpected == DOMAIN frontmatter \ expected_fields
    IN IF unexpected # {}
       THEN Escalating(strict, <<"Unexpected frontmatter fields", unexpected>>)
       ELSE NoEntries

\* A mutant of CheckBody: the short-body message escalates under strict
\* like the empty-body message.
CheckBodyShortEscalates(body, strict) ==
    IF body = <<>>
    THEN Escalating(strict, <<"SKILL.md body is empty (no content after frontmatter)">>)
    ELSE IF Len(body) < BodyMinLen
    THEN Escalating(strict, <<"SKILL.md body is very short", Len(body)>>)
    ELSE NoEntries

\* The body check (lines 97-108).
CheckBody(body, strict) ==
    IF body = <<>>
    THEN Escalating(strict, <<"SKILL.md body is empty (no content after frontmatter)">>)
    ELSE IF Len(body) < BodyMinLen
    THEN Result(<<>>, <<<<"SKILL.md body is very short", Len(body)>>>>)
    ELSE NoEntries

recommended_sections ==
    <<<<(<<"w","h","e","n"," ","t","o"," ","u","s","e">>), "when to use this skill">>,
      <<(<<"i","n","s","t","r","u","c","t","i","o","n">>), "step-by-step instructions">>,
      <<(<<"e","x","a","m","p","l","e">>), "concrete examples">>>>

\* The recommended-sections check (lines 110-122).
CheckSections(body) ==
    LET body_lower == Lower(body)
        missing == SelectSeq(recommended_sections,
                             LAMBDA sec : ~Contains(body_lower, sec[1]))
    IN Result(<<>>,
              [i \in 1..Len(missing) |->
                  <<"Missing recommended section", missing[i][2]>>])

valid_tools ==
    {<<"B","a","s","h">>, <<"R","e","a","d">>, <<"W","r","i","t","e">>,
     <<"E","d","i","t">>, <<"G","l","o","b">>, <<"G","r","e","p">>,
     <<"W","e","b","F","e","t","c","h">>, <<"W","e","b","S","e","a","r","c","h">>}

\* The tools check (lines 124-145): skipped unless tools is a str.
CheckTools(frontmatter) ==
    IF "tools" \in DOMAIN frontmatter /\ frontmatter["tools"].t = "str"
    THEN LET parts == Split(frontmatter["tools"].v, ",")
             tools_list == [i \in 1..Len(parts) |-> Strip(parts[i])]
             invalid_tools ==
                 SelectSeq(tools_list, LAMBDA t : t # <<>> /\ t \notin valid_tools)
         IN IF invalid_tools # <<>>
            THEN Result(<<>>, <<<<"Unknown tools specified", invalid_tools>>>>)
            ELSE NoEntries
    ELSE NoEntries

valid_models ==
    {<<"s","o","n","n","e","t">>, <<"o","p","u","s">>, <<"h","a","i","k","u">>,
     <<"i","n","h","e","r","i","t">>}

\* The model check (lines 147-155): "model not in valid_models" hashes
\* the value, which raises TypeError for a list or a mapping.
CheckModel(frontmatter) ==
    IF "model" \in DOMAIN frontmatter
    THEN LET model == frontmatter["model"]
         IN IF ~Hashable(model) THEN ResultRaised("TypeError")
            ELSE IF ~(model.t = "str" /\ model.v \in valid_models)
            THEN Result(<<>>, <<<<"Unknown model", model>>>>)
            ELSE NoEntries
    ELSE NoEntries

\* scripts_dir.glob("*.py") and references_dir.glob("*.md"): the entries
\* of the directory whose name ends with the suffix; none when the path
\* is not a directory.
Glob(f, d, suffix) ==
    IF IsDir(f, d)
    THEN {p \in Children(f, Resolve(f, d)) : EndsWith(Name(p), suffix)}
    ELSE {}

\* script.stat().st_mode & 0o111
Executable(f, p) == f[Resolve(f, p)].exec

\* The directory-structure checks (lines 157-186).
CheckStructure(f, plat, skill_dir) ==
    LET scripts_dir == Append(skill_dir, SCRIPTS)
        references_dir == Append(skill_dir, REFERENCES)
        python_files == Listing(Glob(f, scripts_dir, DOT_PY))
        noinit ==
            IF Exists(f, scripts_dir) /\ python_files # <<>>
               /\ ~Exists(f, Append(scripts_dir, INIT_PY))
            THEN <<<<"scripts/ directory contains Python files but no __init__.py">>>>
            ELSE <<>>
        notexec ==
            IF Exists(f, scripts_dir) /\ plat # "win32"
            THEN LET bad == SelectSeq(python_files, LAMBDA q : ~Executable(f, q))
                 IN [i \in 1..Len(bad) |-> <<"Script is not executable", Name(bad[i])>>]
            ELSE <<>>
        nomd ==
            IF Exists(f, references_dir) /\ Glob(f, references_dir, DOT_MD) = {}
            THEN <<<<"references/ directory exists but contains no .md files">>>>
            ELSE <<>>
    IN Result(<<>>, noinit \o notexec \o nomd)

\* The checks in the order validate_skill runs them; the first exception
\* leaves validate_skill, otherwise the entries accumulate.
RECURSIVE Accumulate(_)
Accumulate(checks) ==
    IF checks = <<>> THEN NoEntries
    ELSE IF Head(checks).exc # "none" THEN ResultRaised(Head(checks).exc)
    ELSE LET rest == Accumulate(Tail(checks))
         IN IF rest.exc # "none" THEN rest
            ELSE Result(Head(checks).errors \o rest.errors,
                        Head(checks).warnings \o rest.warnings)

\* validate_skill(skill_path, strict)
validate_skill(f, plat, skill_path, strict) ==
    LET skill_file == find_skill_file(f, skill_path)
    IN IF skill_file = NoPath
       THEN Result(<<<<"SKILL.md not found", skill_path>>>>, <<>>)
       ELSE LET rd == read_file_safe(f, skill_file)
            IN IF rd.exc # "none" THEN Result(<<rd.msg>>, <<>>)
               ELSE LET parsed == parse_skill_file(rd.text)
                    IN IF parsed.exc # "none" THEN Result(<<parsed.msg>>, <<>>)
                       ELSE Accumulate(
                              <<CheckName(parsed.frontmatter),
                                CheckDescription(parsed.frontmatter),
                                CheckUnexpected(parsed.frontmatter, strict),
                                CheckBody(parsed.body, strict),
                                CheckSections(parsed.body),
                                CheckTools(parsed.frontmatter),
                                CheckModel(parsed.frontmatter),
                                CheckStructure(f, plat, Parent(skill_file))>>)

(***************************************************************************)
(* validate_skill.py: main.                                                *)
(***************************************************************************)
\* main() with the arguments parsed: [exit, out, err], the exit code and
\* what was printed to standard output and to standard error.
main(f, plat, skill_path, strict, quiet, verbose) ==
    LET result == validate_skill(f, plat, skill_path, strict)
        head == IF verbose THEN <<<<"Validating", skill_path>>>> ELSE <<>>
    IN IF result.exc # "none"
       THEN [exit |-> 2, out |-> <<>>, err |-> <<<<"Error", result.exc>>>>]
       ELSE IF result.errors # <<>>
       THEN [exit |-> 1, out |-> head \o <<result>>, err |-> <<>>]
       ELSE IF result.warnings # <<>> /\ ~quiet
       THEN IF ~strict
            THEN [exit |-> 0,
                  out |-> head \o <<result, "Validation passed (with warnings)">>,
                  err |-> <<>>]
            ELSE [exit |-> 1,
                  out |-> head \o <<result, "Validation failed (strict mode)">>,
                  err |-> <<>>]
       ELSE [exit |-> 0,
             out |-> head \o (IF ~quiet THEN <<"Validation passed">> ELSE <<>>),
             err |-> <<>>]

(***************************************************************************)
(* package_skill.py: create_manifest and collect_files.                    *)
(***************************************************************************)
\* frontmatter.get(key, default)
Get(frontmatter, key, default) ==
    IF key \in DOMAIN frontmatter THEN frontmatter[key] ELSE default

\* scripts_dir.exists() and any(scripts_dir.iterdir()): [exc, value];
\* iterdir() of a path that is not a directory raises NotADirectoryError.
HasEntries(f, d) ==
    IF ~Exists(f, d) THEN [exc |-> "none", value |-> FALSE]
    ELSE IF ~IsDir(f, d) THEN [exc |-> "NotADirectoryError", value |-> FALSE]
    ELSE [exc |-> "none", value |-> Children(f, Resolve(f, d)) # {}]

\* create_manifest(skill_dir, frontmatter): [exc, manifest].  The time of
\* packaging is the word "utcnow".
create_manifest(f, skill_dir, frontmatter) ==
    LET scripts == HasEntries(f, Append(skill_dir, SCRIPTS))
        references == HasEntries(f, Append(skill_dir, REFERENCES))
        optional ==
            [k \in DOMAIN frontmatter \cap {"tools", "model"} |-> frontmatter[k]]
        manifest ==
            [name |-> Get(frontmatter, "name", StrV(<<>>)),
             description |-> Get(frontmatter, "description", StrV(<<>>)),
             version |-> "1.0.0",
             packaged_at |-> "utcnow",
             format |-> "claude-skill",
             format_version |-> "1.0",
             includes_scripts |-> scripts.value,
             includes_references |-> references.value] @@ optional
    IN IF scripts.exc # "none" THEN [exc |-> scripts.exc, manifest |-> <<>>]
       ELSE IF references.exc # "none" THEN [exc |-> references.exc, manifest |-> <<>>]
       ELSE [exc |-> "none", manifest |-> manifest]

\* The files below directory d that collect_files takes: d.rglob("*")
\* filtered by is_file(), which follows symbolic links.
FilesBelow(f, d) ==
    IF Exists(f, d) /\ IsDir(f, d)
    THEN Listing({p \in Descendants(f, d) : IsFile(f, p)})
    ELSE <<>>

\* collect_files(skill_dir): [exc, files]
collect_files(f, skill_dir) ==
    LET skill_file == Append(skill_dir, SKILL_MD)
        readme == Append(skill_dir, README_MD)
    IN IF ~Exists(f, skill_file)
       THEN [exc |-> "SkillPackagingError", files |-> <<>>]
       ELSE [exc |-> "none",
             files |-> <<skill_file>>
                        \o FilesBelow(f, Append(skill_dir, SCRIPTS))
                        \o FilesBelow(f, Append(skill_dir, REFERENCES))
                        \o (IF Exists(f, readme) THEN <<readme>> ELSE <<>>)]

(***************************************************************************)
(* Writing to the file system.  Each operation gives [exc, fs, trace]:     *)
(* the exception ("none" when it succeeded), the file system it leaves     *)
(* and the reads and writes it made, in order, as <<kind, path>>.          *)
(***************************************************************************)
Done(f, trace) == [exc |-> "none", fs |-> f, trace |-> trace]

Failed(e, f, trace) == [exc |-> e, fs |-> f, trace |-> trace]

\* f with the node n at path p
Put(f, p, n) == (p :> n) @@ f

\* path.mkdir(parents=True, exist_ok=True): every missing directory on
\* the way is made; a component that exists and is no directory fails.
RECURSIVE MkdirFrom(_, _, _)
MkdirFrom(f, p, k) ==
    IF k > Len(p) THEN Done(f, <<>>)
    ELSE LET d == SubSeq(p, 1, k)
         IN IF Exists(f, d)
            THEN IF IsDir(f, d) THEN MkdirFrom(f, p, k + 1)
                 ELSE Failed(IF k = Len(p) THEN "FileExistsError"
                             ELSE "NotADirectoryError", f, <<>>)
            ELSE IF d \in DOMAIN f THEN Failed("FileExistsError", f, <<>>)
            ELSE LET rest == MkdirFrom(Put(f, d, DirNode), p, k + 1)
                 IN [rest EXCEPT !.trace = <<<<"mkdir", d>>>> \o @]

Mkdir(f, p) == MkdirFrom(f, p, 1)

\* Whether open(p, "w") can create or truncate a file at p.
Writable(f, p) ==
    LET target == Resolve(f, p)
    IN /\ target # <<>>
       /\ IsDir(f, Parent(target))
       /\ ~IsDir(f, target)

\* path.write_text(data): the file at p, through a link, made or replaced.
WriteFile(f, p, data) ==
    IF Writable(f, p)
    THEN Done(Put(f, Resolve(f, p), FileNode(data[1], data[2], FALSE)),
              <<<<"write", Resolve(f, p)>>>>)
    ELSE Failed("OSError", f, <<>>)

\* shutil.copy2(src, dest): into dest when dest is a directory; the same
\* file on both sides raises SameFileError; the mode is kept.
Copy2(f, src, dest) ==
    LET from == Resolve(f, src)
        into == IF IsDir(f, dest) THEN Append(Resolve(f, dest), Name(src)) ELSE dest
        to == Resolve(f, into)
    IN IF ~Exists(f, src) THEN Failed("FileNotFoundError", f, <<>>)
       ELSE IF to = from THEN Failed("SameFileError", f, <<>>)
       ELSE IF IsDir(f, src) THEN Failed("IsADirectoryError", f, <<>>)
       ELSE IF ~f[from].readable THEN Failed("PermissionError", f, <<>>)
       ELSE IF ~Writable(f, into) THEN Failed("OSError", f, <<<<"read", from>>>>)
       ELSE Done(Put(f, to, f[from]), <<<<"read", from>>, <<"write", to>>>>)

(***************************************************************************)
(* package_skill.py: package_as_zip and package_as_directory.  A manifest  *)
(* argument is [given, m]: given is FALSE for None.                        *)
(***************************************************************************)
NoManifest == [given |-> FALSE, m |-> <<>>]

\* The loop "for file in files: zf.write(file, arcname)": [exc, entries,
\* trace]; an entry is <<arcname, data>>.
RECURSIVE ZipWriteAll(_, _, _)
ZipWriteAll(f, files, skill_dir) ==
    IF files = <<>> THEN [exc |-> "none", entries |-> <<>>, trace |-> <<>>]
    ELSE LET file == Head(files)
             from == Resolve(f, file)
         IN IF ~Exists(f, file)
            THEN [exc |-> "FileNotFoundError", entries |-> <<>>, trace |-> <<>>]
            ELSE IF ~f[from].readable
            THEN [exc |-> "PermissionError", entries |-> <<>>, trace |-> <<>>]
            ELSE LET rest == ZipWriteAll(f, Tail(files), skill_dir)
                 IN [exc |-> rest.exc,
                     entries |-> <<<<RelativeTo(file, skill_dir), f[from].data>>>>
                                   \o rest.entries,
                     trace |-> <<<<"read", from>>>> \o rest.trace]

\* A mutant of package_as_zip: the manifest entry is written after the
\* files.
package_as_zip_manifest_last(f, skill_dir, output_path, manifest) ==
    LET c == collect_files(f, skill_dir)
        target == Resolve(f, output_path)
        opened == Put(f, target, FileNode("zip", <<>>, FALSE))
        tail == IF manifest.given
                THEN <<<<(<<MANIFEST_JSON>>), <<"json", manifest.m>>>>>>
                ELSE <<>>
        w == ZipWriteAll(opened, c.files, skill_dir)
    IN IF c.exc # "none"
       THEN [exc |-> c.exc, fs |-> f, trace |-> <<<<"collect", skill_dir>>>>,
             files |-> <<>>]
       ELSE IF ~Writable(f, output_path)
       THEN [exc |-> "SkillPackagingError", fs |-> f,
             trace |-> <<<<"collect", skill_dir>>>>, files |-> c.files]
       ELSE [exc |-> IF w.exc # "none" THEN "SkillPackagingError" ELSE "none",
             fs |-> Put(f, target, FileNode("zip", w.entries \o tail, FALSE)),
             trace |-> <<<<"collect", skill_dir>>, <<"write", target>>>> \o w.trace,
             files |-> c.files]

\* package_as_zip(skill_dir, output_path, manifest): [exc, fs, trace, files]
package_as_zip(f, skill_dir, output_path, manifest) ==
    LET c == collect_files(f, skill_dir)
        target == Resolve(f, output_path)
        opened == Put(f, target, FileNode("zip", <<>>, FALSE))
        head == IF manifest.given
                THEN <<<<(<<MANIFEST_JSON>>), <<"json", manifest.m>>>>>>
                ELSE <<>>
        w == ZipWriteAll(opened, c.files, skill_dir)
    IN IF c.exc # "none"
       THEN [exc |-> c.exc, fs |-> f, trace |-> <<<<"collect", skill_dir>>>>,
             files |-> <<>>]
       ELSE IF ~Writable(f, output_path)
       THEN [exc |-> "SkillPackagingError", fs |-> f,
             trace |-> <<<<"collect", skill_dir>>>>, files |-> c.files]
       ELSE [exc |-> IF w.exc # "none" THEN "SkillPackagingError" ELSE "none",
             fs |-> Put(f, target, FileNode("zip", head \o w.entries, FALSE)),
             trace |-> <<<<"collect", skill_dir>>, <<"write", target>>>> \o w.trace,
             files |-> c.files]

\* The loop "for file in files: ... shutil.copy2(file, dest)".
RECURSIVE CopyAll(_, _, _, _)
CopyAll(f, files, skill_dir, output_path) ==
    IF files = <<>> THEN Done(f, <<>>)
    ELSE LET file == Head(files)
             dest == output_path \o RelativeTo(file, skill_dir)
             made == Mkdir(f, Parent(dest))
             copied == Copy2(made.fs, file, dest)
         IN IF made.exc # "none" THEN made
            ELSE IF copied.exc # "none"
            THEN Failed(copied.exc, copied.fs, made.trace \o copied.trace)
            ELSE LET rest == CopyAll(copied.fs, Tail(files), skill_dir, output_path)
                 IN [rest EXCEPT !.trace = made.trace \o copied.trace \o @]

\* package_as_directory(skill_dir, output_path, manifest):
\* [exc, fs, trace, files]
package_as_directory(f, skill_dir, output_path, manifest) ==
    LET c == collect_files(f, skill_dir)
        made == Mkdir(f, output_path)
        wrote == IF manifest.given
                 THEN WriteFile(made.fs, Append(output_path, MANIFEST_JSON),
                                <<"json", manifest.m>>)
                 ELSE Done(made.fs, <<>>)
        copied == CopyAll(wrote.fs, c.files, skill_dir, output_path)
        Wrapped(step, trace) ==
            [exc |-> IF step.exc # "none" THEN "SkillPackagingError" ELSE "none",
             fs |-> step.fs,
             trace |-> <<<<"collect", skill_dir>>>> \o trace,
             files |-> c.files]
    IN IF c.exc # "none"
       THEN [exc |-> c.exc, fs |-> f, trace |-> <<<<"collect", skill_dir>>>>,
             files |-> <<>>]
       ELSE IF made.exc # "none" THEN Wrapped(made, made.trace)
       ELSE IF wrote.exc # "none" THEN Wrapped(wrote, made.trace \o wrote.trace)
       ELSE Wrapped(copied, made.trace \o wrote.trace \o copied.trace)

(***************************************************************************)
(* package_skill.py: package_skill.                                        *)
(***************************************************************************)
\* str(x), as an f-string formats a header value; a list or a mapping is
\* given by its brackets alone.
PyStr(x) ==
    CASE x.t = "str" -> x.v
      [] x.t = "int" -> IF x.v \in 0..9 THEN <<(<<"0","1","2","3","4","5","6","7","8","9">>)[x.v + 1]>>
                        ELSE <<"9","+">>
      [] x.t = "bool" -> IF x.v THEN <<"T","r","u","e">> ELSE <<"F","a","l","s","e">>
      [] x.t = "null" -> <<"N","o","n","e">>
      [] x.t = "list" -> <<"[","]">>
      [] x.t = "map" -> <<"{","}">>

\* The absolute path the operating system reaches for Path(text) opened
\* in the working directory wd.
PathOf(wd, text) ==
    IF text # <<>> /\ text[1] = "/" THEN Walk(<<>>, Split(text, "/"))
    ELSE Walk(wd, Split(text, "/"))

NoOutput == [given |-> FALSE, text |-> <<>>]

Output(text) == [given |-> TRUE, text |-> text]

\* A mutant of ValidationBlocks: warnings block packaging as errors do.
ValidationBlocksOnWarnings(result) == result.errors # <<>> \/ result.warnings # <<>>

\* "if not result.is_valid" (line 228)
ValidationBlocks(result) == result.errors # <<>>

\* What package_skill gives: the exception that left it ("none" when it
\* returned), its message, the file system it leaves, the output path, the
\* files collected and the reads and writes it made.
Package(exc, msg, f, out, files, trace) ==
    [exc |-> exc, msg |-> msg, fs |-> f, out |-> out, files |-> files, trace |-> trace]

BYPASS_HINT == "Use --no-validate to skip validation"

\* "Determine output path" (lines 243-249): the path, not yet opened.
OutputPath(wd, skill_dir, frontmatter, output, format) ==
    LET skill_name == Get(frontmatter, "name", StrV(Name(skill_dir)))
    IN IF output.given THEN PathOf(wd, output.text)
       ELSE IF format = "zip" THEN PathOf(wd, PyStr(skill_name) \o DOT_ZIP)
       ELSE PathOf(wd, PyStr(skill_name))

\* Path(skill_name) raises TypeError unless skill_name is a str; the
\* f-string of the zip name formats any value.
OutputPathRaises(skill_dir, frontmatter, output, format) ==
    /\ ~output.given
    /\ format # "zip"
    /\ Get(frontmatter, "name", StrV(Name(skill_dir))).t # "str"

\* The end of package_skill (lines 251-259) once package_as_zip or
\* package_as_directory gave packed.
Packed(packed, skill_dir, out, format, trace) ==
    Package(packed.exc,
            IF packed.exc = "none" THEN <<>>
            ELSE IF packed.files = <<>> THEN <<"SKILL.md not found", skill_dir>>
            ELSE IF format = "zip" THEN <<"Failed to create ZIP">>
            ELSE <<"Failed to create directory">>,
            packed.fs, out, packed.files, trace \o packed.trace)

\* "Package based on format" (lines 251-259), the manifest being made or
\* None.
PackageByFormat(f, skill_dir, out, manifest, format, trace) ==
    IF format = "zip"
    THEN Packed(package_as_zip(f, skill_dir, out, manifest), skill_dir, out, format, trace)
    ELSE IF format = "directory"
    THEN Packed(package_as_directory(f, skill_dir, out, manifest), skill_dir, out,
                format, trace)
    ELSE Package("SkillPackagingError", <<"Unknown format", format>>, f, out, <<>>, trace)

\* Lines 238-259: the manifest, the output path and the packaging, for a
\* header that parsed.
PackageParsed(f, wd, skill_dir, frontmatter, output, format, include_manifest, trace) ==
    LET made == IF include_manifest THEN create_manifest(f, skill_dir, frontmatter)
                ELSE [exc |-> "none", manifest |-> <<>>]
        listed == trace \o (IF include_manifest THEN <<<<"list", skill_dir>>>> ELSE <<>>)
    IN IF made.exc # "none" THEN Package(made.exc, <<made.exc>>, f, <<>>, <<>>, listed)
       ELSE IF OutputPathRaises(skill_dir, frontmatter, output, format)
       THEN Package("TypeError", <<"TypeError">>, f, <<>>, <<>>, listed)
       ELSE PackageByFormat(f, skill_dir,
                            OutputPath(wd, skill_dir, frontmatter, output, format),
                            IF include_manifest
                            THEN [given |-> TRUE, m |-> made.manifest]
                            ELSE NoManifest,
                            format, listed)

\* Lines 234-236: SKILL.md read and parsed again for the manifest.
PackageRead(f, wd, skill_file, output, format, include_manifest, trace) ==
    LET rd == read_file_safe(f, skill_file)
        read == trace \o <<<<"read", skill_file>>>>
    IN IF rd.exc # "none" THEN Package(rd.exc, rd.msg, f, <<>>, <<>>, read)
       ELSE LET parsed == parse_skill_file(rd.text)
            IN IF parsed.exc # "none"
               THEN Package(parsed.exc, parsed.msg, f, <<>>, <<>>, read)
               ELSE PackageParsed(f, wd, Parent(skill_file), parsed.frontmatter,
                                  output, format, include_manifest, read)

\* Lines 228-232 and on, result being what validate_skill gave.
PackageChecked(result, f, wd, skill_file, output, format, include_manifest, trace) ==
    IF result.exc # "none"
    THEN Package(result.exc, <<result.exc>>, f, <<>>, <<>>, trace)
    ELSE IF ValidationBlocks(result)
    THEN Package("SkillError", <<"Skill validation failed", result, BYPASS_HINT>>,
                 f, <<>>, <<>>, trace)
    ELSE PackageRead(f, wd, skill_file, output, format, include_manifest, trace)

\* Lines 225-232: validation first, when asked for.
PackageValidated(f, wd, plat, skill_file, output, format, validate, include_manifest,
                 trace) ==
    PackageChecked(IF validate THEN validate_skill(f, plat, Parent(skill_file), FALSE)
                   ELSE NoEntries,
                   f, wd, skill_file, output, format, include_manifest,
                   trace \o (IF validate THEN <<<<"validate_skill", Parent(skill_file)>>>>
                             ELSE <<>>))

\* package_skill(skill_path, output, format, validate, include_manifest),
\* called in the working directory wd.
package_skill(f, wd, plat, skill_path, output, format, validate, include_manifest) ==
    LET skill_file == find_skill_file(f, skill_path)
    IN IF skill_file = NoPath
       THEN Package("SkillPackagingError", <<"SKILL.md not found", skill_path>>,
                    f, <<>>, <<>>, <<<<"stat", skill_path>>>>)
       ELSE PackageValidated(f, wd, plat, skill_file, output, format, validate,
                             include_manifest, <<<<"stat", skill_path>>>>)

(***************************************************************************)
(* Inputs of the field validators: a text drawn character by character,    *)
(* behind a run of one character that brings its length to the limits.     *)
(***************************************************************************)
RECURSIVE TextsUpTo(_, _)
TextsUpTo(alphabet, n) ==
    IF n = 0 THEN {<<>>}
    ELSE LET shorter == TextsUpTo(alphabet, n - 1)
         IN shorter \cup {Append(s, c) : s \in shorter, c \in alphabet}

NameAlphabet == {"a", "-", "1", "A", " ", "\n", "<"}

DescAlphabet == {"a", " ", "<", ">", "\n"}

PadLengths(limit) == {0} \cup ((limit - MaxCore)..(limit + 1))

NameInputs ==
    {Pad("a", k) \o core :
        k \in PadLengths(MaxNameLen), core \in TextsUpTo(NameAlphabet, MaxCore)}
    \cup {pfx \o word \o sfx :
            pfx \in {<<>>, <<"a">>, <<"A">>}, word \in {ANTHROPIC, CLAUDE},
            sfx \in {<<>>, <<"-">>, <<"\n">>}}

DescInputs ==
    {Pad(c, k) \o core :
        c \in {"a", " "}, k \in PadLengths(MaxDescLen),
        core \in TextsUpTo(DescAlphabet, MaxCore)}

(***************************************************************************)
(* The skills the model validates: SKILL.md contents built from header     *)
(* lines and a body, and the directory around it.                          *)
(***************************************************************************)
NL == <<"\n">>

\* The text of a SKILL.md with the header lines hs (words) and the text
\* body after the closing delimiter line.
Render(hs, body) ==
    DELIM \o NL \o Join([i \in 1..Len(hs) |-> <<hs[i]>>], NL) \o NL \o DELIM \o NL \o body

FullBody ==
    <<"W","h","e","n"," ","t","o"," ","u","s","e",":"," ","a","l","w","a","y","s",".","\n">>
    \o <<"I","n","s","t","r","u","c","t","i","o","n","s",":"," ","r","u","n",".","\n">>
    \o <<"E","x","a","m","p","l","e",":"," ">> \o Pad("x", BodyMinLen) \o NL

Bodies ==
    {<<>>, <<" ", "\n">>, <<"E","x","a","m","p","l","e">>,
     Pad("x", BodyMinLen - 1), <<"\n">> \o Pad("x", BodyMinLen) \o <<"\n">>, FullBody}

\* A choice of at most one line per field, as the sequence of the lines
\* chosen ("" stands for no line).
Lines(n, d, t, m, x) == SelectSeq(<<n, d, t, m, x>>, LAMBDA w : w # "")

PlainHeaders ==
    {Lines(n, d, t, m, x) :
        n \in {"", "name: sk", "name: My Skill"},
        d \in {"", "description: Does a thing.", "description: <b>x</b>"},
        t \in {"", "tools: Read, Grep", "tools: Read, Fly"},
        m \in {"", "model: opus", "model: gpt"},
        x \in {"", "version: 2"}}

OddNames ==
    {"name: o", "name: ../e", "name: 5", "name: 0", "name: true", "name: ~",
     "name: [a]", "name: []", "name: {a: 1}", "name: \"sk\\n\""}

OddDescriptions ==
    {"description: 7", "description: false", "description: ~", "description: [a]",
     "description: {a: 1}"}

OddTools == {"tools: 3", "tools: true", "tools: ~", "tools: [Read]", "tools: {a: 1}"}

OddModels == {"model: 4", "model: true", "model: ~", "model: [opus]", "model: {a: 1}"}

\* Headers in which one field holds a value of another type.
OddHeaders ==
    {Lines(n, "description: Does a thing.", "", "", x) :
        n \in OddNames, x \in {"", "version: 2"}}
    \cup {Lines("name: sk", d, "", "", x) :
            d \in OddDescriptions, x \in {"", "version: 2"}}
    \cup {Lines("name: sk", "description: Does a thing.", t, "", x) :
            t \in OddTools, x \in {"", "version: 2"}}
    \cup {Lines(n, d, "", m, x) :
            n \in {"", "name: sk"}, d \in {"", "description: Does a thing."},
            m \in OddModels, x \in {"", "version: 2"}}
    \cup {<<"name: sk", "description: Does a thing.", "version: 2", "author: me">>,
          <<"name: o", "name: sk", "description: Does a thing.">>}

\* Texts that are not a delimiter line, a header block, a delimiter line
\* and a body, or whose header block is not a YAML mapping.
BrokenContents ==
    {<<>>,
     <<" ", "\n">>,
     <<"x">>,
     <<"\n">> \o Render(<<"name: sk">>, FullBody),
     DELIM \o NL \o <<"name: sk">>,
     DELIM \o <<"name: sk">> \o NL \o DELIM \o NL,
     DELIM \o NL \o DELIM \o NL \o FullBody,
     DELIM \o NL \o <<"name: sk">> \o NL \o DELIM,
     DELIM \o NL \o NL \o DELIM \o NL \o FullBody,
     Render(<<YamlBroken>>, FullBody),
     Render(<<YamlListItem, YamlListItem>>, FullBody),
     DELIM \o NL \o <<"x", "y">> \o NL \o DELIM \o NL \o FullBody,
     Render(<<"name: sk", YamlListItem>>, FullBody)}

\* A body that holds a delimiter line of its own.
TwoBlockContent ==
    Render(<<"name: sk", "description: Does a thing.">>,
           FullBody \o DELIM \o NL \o <<"x">>)

ValidateContents ==
    {Render(hs, b) : hs \in PlainHeaders, b \in Bodies}
    \cup {Render(hs, b) : hs \in OddHeaders, b \in {<<>>, FullBody}}
    \cup BrokenContents
    \cup {TwoBlockContent}

\* The directories of the model: the working directory /w and the skill
\* directory /w/sk.
WorkDir == <<(<<"w">>)>>

SkillDir == <<(<<"w">>), sk>>

SkillFile == Append(SkillDir, SKILL_MD)

ScriptsDir == Append(SkillDir, SCRIPTS)

ReferencesDir == Append(SkillDir, REFERENCES)

RUN_PY == <<"r","u","n",".","p","y">>

NOTES_TXT == <<"n","o","t","e","s",".","t","x","t">>

GUIDE_MD == <<"g","u","i","d","e",".","m","d">>

EmptyTree == (<<>> :> DirNode) @@ (WorkDir :> DirNode) @@ (SkillDir :> DirNode)

\* scripts/: absent; run.py alone, not executable; run.py and __init__.py,
\* run.py executable.
ScriptsLayouts ==
    {<<>>,
     (ScriptsDir :> DirNode)
        @@ (Append(ScriptsDir, RUN_PY) :> FileNode("text", <<"#">>, FALSE)),
     (ScriptsDir :> DirNode)
        @@ (Append(ScriptsDir, RUN_PY) :> FileNode("text", <<"#">>, TRUE))
        @@ (Append(ScriptsDir, INIT_PY) :> FileNode("text", <<>>, FALSE))}

\* references/: absent; notes.txt alone; guide.md.
ReferencesLayouts ==
    {<<>>,
     (ReferencesDir :> DirNode)
        @@ (Append(ReferencesDir, NOTES_TXT) :> TextFile(<<"n">>)),
     (ReferencesDir :> DirNode)
        @@ (Append(ReferencesDir, GUIDE_MD) :> TextFile(<<"g">>))}

\* What can sit at SKILL.md besides a readable text file.
OddSkillFiles ==
    {<<>>,
     SkillFile :> DirNode,
     SkillFile :> FileNode("binary", <<>>, FALSE),
     SkillFile :> FileNode("huge", <<>>, FALSE),
     SkillFile :> [TextFile(Render(<<"name: sk">>, FullBody)) EXCEPT !.readable = FALSE]}

ValidateTrees ==
    {(SkillFile :> TextFile(c)) @@ s @@ r @@ EmptyTree :
        c \in ValidateContents, s \in ScriptsLayouts, r \in {<<>>}}
    \cup {(SkillFile :> TextFile(c)) @@ s @@ r @@ EmptyTree :
            c \in {Render(<<"name: sk", "description: Does a thing.">>, FullBody),
                   Render(<<"version: 2">>, <<>>)},
            s \in ScriptsLayouts, r \in ReferencesLayouts}
    \cup {o @@ s @@ EmptyTree : o \in OddSkillFiles, s \in ScriptsLayouts}

Platforms == {"linux", "win32"}

\* The paths validate_skill is called with.
ValidatePaths == {SkillDir, SkillFile, WorkDir, Append(WorkDir, <<"n","o">>)}

(***************************************************************************)
(* validate_skill called once on a skill.                                  *)
(***************************************************************************)
InitValidate ==
    /\ fs \in ValidateTrees
    /\ pre = fs
    /\ cwd = WorkDir
    /\ platform \in Platforms
    /\ call = [op |-> "none"]
    /\ ret = [op |-> "none"]

ValidateSkill ==
    /\ call.op = "none"
    /\ \E skill_path \in ValidatePaths, strict \in BOOLEAN :
          /\ call' = [op |-> "validate_skill", skill_path |-> skill_path,
                      strict |-> strict]
          /\ ret' = [op |-> "validate_skill"]
                      @@ validate_skill(fs, platform, skill_path, strict)
    /\ UNCHANGED <<fs, pre, cwd, platform>>

NextValidate == ValidateSkill

SpecValidate == InitValidate /\ [][NextValidate]_vars

(***************************************************************************)
(* The skills the model packages, and package_skill called once.           *)
(***************************************************************************)
GoodHeader == <<"name: sk", "description: Does a thing.">>

PackageContents ==
    {Render(GoodHeader, FullBody),
     Render(<<"name: o", "description: Does a thing.">>, FullBody),
     Render(<<"description: Does a thing.">>, FullBody),
     Render(<<"name: ../e", "description: Does a thing.">>, FullBody),
     Render(<<"name: 5", "description: Does a thing.">>, FullBody),
     Render(<<"name: sk">>, FullBody),
     Render(<<"name: sk", "description: Does a thing.", "tools: Read, Fly",
              "version: 2">>, <<>>)}

SecretFile == <<(<<"s","e","c","r","e","t">>)>>

OtherDir == Append(WorkDir, <<"c">>)

\* Around the skill: a file outside the working directory and another
\* directory in it, which holds an output directory of an earlier run.
PackageBase ==
    (SecretFile :> TextFile(<<"k","e","y">>))
    @@ (OtherDir :> DirNode)
    @@ (Append(OtherDir, <<"o","u","t">>) :> DirNode)
    @@ (Append(Append(OtherDir, <<"o","u","t">>), <<"o","l","d">>) :> TextFile(<<"o">>))
    @@ EmptyTree

\* The resources of a skill: none; scripts/ with a file in a
\* subdirectory, references/ and README.md; the same with a symbolic
\* link in scripts/ to the file outside; a directory named README.md.
FullResources ==
    (ScriptsDir :> DirNode)
    @@ (Append(ScriptsDir, RUN_PY) :> FileNode("text", <<"#">>, TRUE))
    @@ (Append(ScriptsDir, <<"s","u","b">>) :> DirNode)
    @@ (Append(Append(ScriptsDir, <<"s","u","b">>), INIT_PY) :> TextFile(<<>>))
    @@ (ReferencesDir :> DirNode)
    @@ (Append(ReferencesDir, GUIDE_MD) :> TextFile(<<"g">>))
    @@ (Append(SkillDir, README_MD) :> TextFile(<<"r">>))

PackageResources ==
    {<<>>,
     FullResources,
     (Append(ScriptsDir, <<"l","i","n","k">>) :> LinkNode(SecretFile)) @@ FullResources,
     (Append(SkillDir, README_MD) :> DirNode)}

PackageTrees ==
    {(SkillFile :> TextFile(c)) @@ r @@ PackageBase :
        c \in PackageContents, r \in PackageResources}

WorkingDirs == {WorkDir, SkillDir, OtherDir}

PackagePaths == {SkillDir, SkillFile, Append(WorkDir, <<"n","o">>)}

Outputs == {NoOutput, Output(<<"o","u","t">>), Output(sk \o <<"/","p","k","g">>)}

Formats == {"zip", "directory", "tar"}

InitPackage ==
    /\ fs \in PackageTrees
    /\ pre = fs
    /\ cwd \in WorkingDirs
    /\ platform = "linux"
    /\ call = [op |-> "none"]
    /\ ret = [op |-> "none"]

PackageSkill ==
    /\ call.op = "none"
    /\ \E skill_path \in PackagePaths, output \in Outputs, format \in Formats,
          validate \in BOOLEAN, include_manifest \in BOOLEAN :
          \E r \in {package_skill(fs, cwd, platform, skill_path, output, format,
                                  validate, include_manifest)} :
             /\ call' = [op |-> "package_skill", skill_path |-> skill_path,
                         output |-> output, format |-> format, validate |-> validate,
                         include_manifest |-> include_manifest]
             /\ ret' = [op |-> "package_skill", exc |-> r.exc, msg |-> r.msg,
                        out |-> r.out, files |-> r.files, trace |-> r.trace]
             /\ fs' = r.fs
    /\ UNCHANGED <<pre, cwd, platform>>

Next == PackageSkill

Spec == InitPackage /\ [][Next]_vars

(***************************************************************************)
(* The validator's entry point run once on a skill.                        *)
(***************************************************************************)
InitMain ==
    /\ fs \in PackageTrees
    /\ pre = fs
    /\ cwd = WorkDir
    /\ platform \in Platforms
    /\ call = [op |-> "none"]
    /\ ret = [op |-> "none"]

Main ==
    /\ call.op = "none"
    /\ \E skill_path \in PackagePaths, strict \in BOOLEAN, quiet \in BOOLEAN,
          verbose \in BOOLEAN :
          \E r \in {main(fs, platform, skill_path, strict, quiet, verbose)} :
             /\ call' = [op |-> "main", skill_path |-> skill_path, strict |-> strict,
                         quiet |-> quiet, verbose |-> verbose]
             /\ ret' = [op |-> "main", exit |-> r.exit, out |-> r.out, err |-> r.err]
    /\ UNCHANGED <<fs, pre, cwd, platform>>

NextMain == Main

SpecMain == InitMain /\ [][NextMain]_vars

\* Contents for parse_skill_file: those that fail to parse, well-formed
\* ones with each body, a body with a delimiter line of its own, a
\* delimiter line right after the opening one, an opening line longer
\* than the delimiter, and a header with an empty line.
ParseInputs ==
    BrokenContents
    \cup {TwoBlockContent}
    \cup {Render(GoodHeader, b) : b \in Bodies}
    \cup {DELIM \o NL \o Render(GoodHeader, FullBody),
          DELIM \o NL \o DELIM \o NL \o DELIM \o NL \o FullBody,
          DELIM \o NL \o Render(<<YamlListItem>>, <<"x">>),
          <<"-">> \o Render(GoodHeader, FullBody),
          DELIM \o NL \o <<"name: sk">> \o NL \o NL \o <<"version: 2">> \o NL
              \o DELIM \o NL \o <<" ", "x", "\n", "\n">>}

(***************************************************************************)
(* The field validators and the parser applied to one drawn input.        *)
(***************************************************************************)
InitFields ==
    /\ fs = <<>>
    /\ pre = <<>>
    /\ cwd = <<>>
    /\ platform = "linux"
    /\ ret = [op |-> "none"]
    /\ call \in {[op |-> "none", fn |-> "validate_skill_name", arg |-> s] :
                    s \in NameInputs}
            \cup {[op |-> "none", fn |-> "validate_skill_description", arg |-> s] :
                    s \in DescInputs}
            \cup {[op |-> "none", fn |-> "parse_skill_file", arg |-> s] :
                    s \in ParseInputs}

ValidateName ==
    /\ call.op = "none"
    /\ call.fn = "validate_skill_name"
    /\ call' = [call EXCEPT !.op = "validate_skill_name"]
    /\ ret' = [op |-> "validate_skill_name"] @@ validate_skill_name(StrV(call.arg))
    /\ UNCHANGED <<fs, pre, cwd, platform>>

ValidateDescription ==
    /\ call.op = "none"
    /\ call.fn = "validate_skill_description"
    /\ call' = [call EXCEPT !.op = "validate_skill_description"]
    /\ ret' = [op |-> "validate_skill_description"]
                @@ validate_skill_description(StrV(call.arg))
    /\ UNCHANGED <<fs, pre, cwd, platform>>

ParseSkillFile ==
    /\ call.op = "none"
    /\ call.fn = "parse_skill_file"
    /\ call' = [call EXCEPT !.op = "parse_skill_file"]
    /\ ret' = [op |-> "parse_skill_file"] @@ parse_skill_file(call.arg)
    /\ UNCHANGED <<fs, pre, cwd, platform>>

NextFields == ValidateName \/ ValidateDescription \/ ParseSkillFile

SpecFields == InitFields /\ [][NextFields]_vars

(***************************************************************************)
(* Claims about the field validators and the parser, under SpecFields.     *)
(***************************************************************************)
DescriptionChecked == ret.op = "validate_skill_description"

NameChecked == ret.op = "validate_skill_name"

\* The text holds "<", then one or more characters other than ">", then
\* ">": some "<" is followed by a character other than ">" and, further
\* on, by a ">".
HasXmlTagShape(s) ==
    \E i \in 1..(Len(s) - 2) :
        /\ s[i] = "<"
        /\ s[i + 1] # ">"
        /\ \E j \in (i + 2)..Len(s) : s[j] = ">"

\* C9 as stated: every non-empty description of at most 1024 characters
\* with no XML-tag-shaped substring is valid.
C9_AnyNonEmptyDescriptionValid ==
    (DescriptionChecked /\ call.arg # <<>> /\ Len(call.arg) <= 1024
        /\ ~HasXmlTagShape(call.arg))
    => (ret.exc = "none" /\ ret.ok)

\* C9 as amended: every description of at most 1024 characters that holds
\* at least one non-whitespace character and no XML-tag-shaped substring
\* is valid, with an empty message.
C9_NonBlankDescriptionValid ==
    (DescriptionChecked /\ Len(call.arg) <= 1024
        /\ (\E i \in 1..Len(call.arg) : call.arg[i] \notin Whitespace)
        /\ ~HasXmlTagShape(call.arg))
    => (ret.exc = "none" /\ ret.ok /\ ret.msg = <<>>)

\* C9's case: a description of exactly 1024 characters, with whitespace
\* and angle brackets that form no tag, found valid.
C9_Witness ==
    /\ DescriptionChecked
    /\ Len(call.arg) = 1024
    /\ \E i \in 1..Len(call.arg) : call.arg[i] = ">"
    /\ \E i \in 1..Len(call.arg) : call.arg[i] = " "
    /\ ret.ok

\* C10: every non-empty name of at most 64 characters that holds a
\* character outside lowercase letters, digits and hyphen is invalid.
C10_BadCharacterRejected ==
    (NameChecked /\ call.arg # <<>> /\ Len(call.arg) <= 64
        /\ (\E i \in 1..Len(call.arg) : call.arg[i] \notin NameClass))
    => (ret.exc = "none" /\ ~ret.ok)

\* The name holds one of the two restricted terms.
HasReserved(s) == Contains(s, ANTHROPIC) \/ Contains(s, CLAUDE)

\* Every character of the name is a lowercase letter, a digit or a hyphen.
InNameClass(s) == \A i \in 1..Len(s) : s[i] \in NameClass

\* The answer "invalid" with the message msg.
Invalid(msg) == ret.exc = "none" /\ ~ret.ok /\ ret.msg = msg

\* C11: a name of 1 to 64 characters from [a-z0-9-] without a restricted
\* term is valid with an empty message; a longer name from that alphabet
\* is invalid with the length message; and the first check to fail, in the
\* order empty, length, character class, restricted terms, decides the
\* message: an empty name is "required", a name over 64 characters gets
\* the length message whatever else it holds, a name that fails the
\* pattern of line 150 gets the character-class message even when it holds
\* a restricted term or an angle bracket, and a name of the class with a
\* restricted term gets the restricted-term message.
C11_NameValidAndCheckOrder ==
    NameChecked =>
        /\ (call.arg # <<>> /\ Len(call.arg) <= 64 /\ InNameClass(call.arg)
                /\ ~HasReserved(call.arg))
           => (ret.exc = "none" /\ ret.ok /\ ret.msg = <<>>)
        /\ call.arg = <<>> => Invalid(<<"Skill name is required">>)
        /\ Len(call.arg) > 64
           => Invalid(<<"Skill name too long", Len(call.arg), 64>>)
        /\ (call.arg # <<>> /\ Len(call.arg) <= 64 /\ ~NameReMatch(call.arg))
           => Invalid(<<"Skill name must be lowercase with hyphens only (a-z, 0-9, -)">>)
        /\ (Len(call.arg) <= 64 /\ InNameClass(call.arg) /\ HasReserved(call.arg))
           => Invalid(<<"Skill name cannot contain anthropic or claude">>)

\* C11's case: a name that holds a restricted term and a character outside
\* the class was refused for its characters.
C11_Witness ==
    /\ NameChecked
    /\ HasReserved(call.arg)
    /\ ~InNameClass(call.arg)
    /\ Len(call.arg) <= 64
    /\ Invalid(<<"Skill name must be lowercase with hyphens only (a-z, 0-9, -)">>)

ParseCalled == ret.op = "parse_skill_file"

\* The lines of a text.
TextLines(c) == Split(c, "\n")

\* The delimiter lines after the first line: lines that are "---" and end
\* with a newline.
DelimiterLines(c) ==
    {d \in 2..(Len(TextLines(c)) - 1) : TextLines(c)[d] = DELIM}

\* The text is a delimiter line, a header block, a delimiter line, a body.
HasShape(c) == TextLines(c)[1] = DELIM /\ DelimiterLines(c) # {}

\* The first delimiter line after the opening one.
FirstDelimiterLine(c) ==
    CHOOSE d \in DelimiterLines(c) : \A e \in DelimiterLines(c) : d <= e

\* The text between the opening delimiter line and the first one after it.
HeaderBlock(c) == Join(SubSeq(TextLines(c), 2, FirstDelimiterLine(c) - 1), NL)

\* The text after the first delimiter line that follows the opening one.
BodyText(c) ==
    Join(SubSeq(TextLines(c), FirstDelimiterLine(c) + 1, Len(TextLines(c))), NL)

\* parse_skill_file failed with the message msg.
ParseError(msg) == ret.exc = "SkillValidationError" /\ ret.msg = msg

\* parse_skill_file returned the mapping of the header block and the body,
\* trimmed.
ParsedAs(header, body) ==
    \A loaded \in {yaml_safe_load(header)} :
        IF loaded.exc # "none" THEN ParseError(<<"Invalid YAML in frontmatter">>)
        ELSE IF loaded.value.t # "map"
        THEN ParseError(<<"Frontmatter must be a YAML dictionary/object">>)
        ELSE /\ ret.exc = "none"
             /\ ret.frontmatter = loaded.value.v
             /\ ret.body = Strip(body)
             /\ ret.body # <<>> =>
                    /\ ret.body[1] \notin Whitespace
                    /\ ret.body[Len(ret.body)] \notin Whitespace

\* C14: parse_skill_file fails on the first of these that holds: the text
\* is empty or blank; it does not start with "---"; it is not a delimiter
\* line, a header block, a delimiter line and a body; the header block is
\* not YAML; the header block is not a mapping.  Otherwise it returns the
\* mapping of the text between the opening delimiter line and the first
\* delimiter line after it, and the rest, later delimiter lines included,
\* as the body without leading or trailing whitespace.
C14_ParseClassifiesAndSplitsAtFirstDelimiter ==
    ParseCalled =>
        IF IsBlank(call.arg) THEN ParseError(<<"SKILL.md file is empty">>)
        ELSE IF ~StartsWith(call.arg, DELIM)
        THEN ParseError(<<"SKILL.md must start with YAML frontmatter (---)">>)
        ELSE IF ~HasShape(call.arg) THEN ParseError(<<"Invalid frontmatter format">>)
        ELSE ParsedAs(HeaderBlock(call.arg), BodyText(call.arg))

(***************************************************************************)
(* Claims about validate_skill, under SpecValidate.                        *)
(***************************************************************************)
ValidateCalled == ret.op = "validate_skill"

\* The SKILL.md the call found, its text and its parse.
CalledSkillFile == find_skill_file(pre, call.skill_path)

CalledRead == read_file_safe(pre, CalledSkillFile)

CalledParse == parse_skill_file(CalledRead.text)

\* The call found a readable SKILL.md whose header parses to a mapping.
CalledParsed ==
    /\ CalledSkillFile # NoPath
    /\ CalledRead.exc = "none"
    /\ CalledParse.exc = "none"

\* The entries of a sequence, as a set.
Entries(seq) == {seq[i] : i \in 1..Len(seq)}

\* C1: for every readable SKILL.md whose header parses to a mapping,
\* whatever the types of the values under name, description, tools and
\* model, validate_skill returns a ValidationResult and raises nothing.
C1_NeverRaises ==
    (ValidateCalled /\ CalledParsed) => ret.exc = "none"

\* The two messages whose place depends on strict.
Movable(msg) ==
    msg[1] \in {"Unexpected frontmatter fields",
                "SKILL.md body is empty (no content after frontmatter)"}

Fixed(msg) == ~Movable(msg)

\* The result of the same call in the other mode.
OtherMode == validate_skill(pre, platform, call.skill_path, ~call.strict)

C8_OneErrorOrAccumulate ==
    ValidateCalled =>
        /\ ~CalledParsed =>
              (ret.exc = "none" /\ Len(ret.errors) = 1 /\ ret.warnings = <<>>)
        /\ (CalledParsed /\ DOMAIN CalledParse.frontmatter \cap {"name", "description"} = {})
              => /\ ret.exc = "none"
                 /\ Len(ret.errors) >= 2
                 /\ ret.errors[1] = <<"Required field missing from frontmatter", "name">>
                 /\ ret.errors[2] =
                        <<"Required field missing from frontmatter", "description">>
                 /\ Entries(CheckSections(CalledParse.body).warnings)
                        \subseteq Entries(ret.warnings)
                 /\ Entries(CheckStructure(pre, platform, Parent(CalledSkillFile)).warnings)
                        \subseteq Entries(ret.warnings)

(***************************************************************************)
(* Claims about package_skill, checked under Spec.                         *)
(***************************************************************************)
PackageCalled == ret.op = "package_skill"

\* The kinds of event that change the file system.
Writes == {"mkdir", "write"}

\* The kinds of event that read a file or list a directory.
Reads == {"validate_skill", "read", "list", "collect"}

\* The events of the call whose kind is in kinds.
Events(kinds) == {i \in 1..Len(ret.trace) : ret.trace[i][1] \in kinds}

\* C2: after package_skill returns or fails, the source skill directory
\* holds the same files with the same contents as before the call.
C2_SkillDirectoryUnchanged ==
    PackageCalled =>
        \A p \in DOMAIN fs \cup DOMAIN pre :
            IsUnder(p, SkillDir) =>
                /\ p \in DOMAIN fs
                /\ p \in DOMAIN pre
                /\ fs[p] = pre[p]

\* C3: every path collect_files returned, and every file read for the
\* package, resolves to a location at or below the skill directory.
C3_CollectedFilesContained ==
    PackageCalled =>
        /\ \A i \in 1..Len(ret.files) :
               IsUnder(Resolve(pre, ret.files[i]), SkillDir)
        /\ \A i \in Events({"read"}) : IsUnder(ret.trace[i][2], SkillDir)

\* C4: when the output location is derived from the header's name, nothing
\* is made or written outside the current working directory.
C4_DerivedOutputInsideWorkingDirectory ==
    (PackageCalled /\ ~call.output.given) =>
        \A i \in Events(Writes) : IsUnder(ret.trace[i][2], cwd)

\* The result of the validation package_skill ran, the skill file found.
PackageValidation ==
    validate_skill(pre, platform, Parent(find_skill_file(pre, call.skill_path)), FALSE)

\* package_skill was called with validate=True and found the skill file.
ValidatedFirst ==
    /\ PackageCalled
    /\ call.validate
    /\ find_skill_file(pre, call.skill_path) # NoPath

\* The call failed as "Skill validation failed" does, with the result and
\* the hint.
ValidationFailure(result) ==
    /\ ret.exc = "SkillError"
    /\ ret.msg = <<"Skill validation failed", result, BYPASS_HINT>>

\* C5: with validate=True a validation result with an error makes
\* package_skill fail with the result and the bypass hint, nothing being
\* made or written; a result with warnings only lets packaging go on to
\* read SKILL.md.
C5_InvalidSkillNotPackaged ==
    ValidatedFirst =>
        \A result \in {PackageValidation} :
            /\ (result.exc = "none" /\ result.errors # <<>>) =>
                   /\ ValidationFailure(result)
                   /\ fs = pre
                   /\ Events(Writes) = {}
                   /\ ret.out = <<>>
            /\ (result.exc = "none" /\ result.errors = <<>>
                    /\ result.warnings # <<>>) =>
                   /\ ret.exc # "SkillError"
                   /\ Events({"read"}) # {}

\* A skill with an error was refused, validation having been asked for.
C5_Witness ==
    /\ ValidatedFirst
    /\ ret.exc = "SkillError"
    /\ Len(ret.msg) = 3
    /\ ret.msg[2].errors # <<>>
    /\ ret.msg[3] = BYPASS_HINT
    /\ fs = pre

\* C6: a format other than "zip" and "directory" makes package_skill fail
\* with the unknown-format error before any file is read, listed or
\* written.
C6_UnknownFormatBeforeAnyIO ==
    (PackageCalled /\ call.format \notin {"zip", "directory"}) =>
        /\ ret.exc = "SkillPackagingError"
        /\ ret.msg = <<"Unknown format", call.format>>
        /\ Events(Reads \cup Writes) = {}

\* Where collect_files puts a path of the skill directory: SKILL.md, then
\* what lies under scripts/, then under references/, then README.md.
Rank(p) ==
    IF p = SkillFile THEN 0
    ELSE IF IsUnder(p, ScriptsDir) THEN 1
    ELSE IF IsUnder(p, ReferencesDir) THEN 2
    ELSE IF p = Append(SkillDir, README_MD) THEN 3
    ELSE 4

\* collect_files returned, its list being ret.files.
Collected == PackageCalled /\ ret.files # <<>>

\* C12: what collect_files returns begins with SKILL.md, goes on with every
\* file under scripts/, then every file under references/, then README.md
\* if present, each once, and every member is a regular file.
C12_CollectedOrderedRegularFiles ==
    Collected =>
        /\ ret.files[1] = SkillFile
        /\ \A i, j \in 1..Len(ret.files) :
               i < j => /\ Rank(ret.files[i]) <= Rank(ret.files[j])
                        /\ ret.files[i] # ret.files[j]
        /\ \A i \in 1..Len(ret.files) : Rank(ret.files[i]) < 4
        /\ \A p \in Descendants(pre, ScriptsDir) \cup Descendants(pre, ReferencesDir)
                    \cup {Append(SkillDir, README_MD)} :
               IsFile(pre, p) => \E i \in 1..Len(ret.files) : ret.files[i] = p
        /\ \A i \in 1..Len(ret.files) : IsFile(pre, ret.files[i])

\* package_skill returned: the artifact is at ret.out.
Produced == PackageCalled /\ ret.exc = "none"

\* The entries the collected files make: each at its path relative to the
\* skill directory, with the content it had before the call.
FileEntries ==
    [i \in 1..Len(ret.files) |->
        <<RelativeTo(ret.files[i], SkillDir), pre[Resolve(pre, ret.files[i])].data>>]

\* The entries of the archive at ret.out, in the order written.
ArchiveEntries == fs[Resolve(fs, ret.out)].data[2]

\* What the directory tree at ret.out holds apart from directories: each
\* file as <<relative path, content>>.
TreeEntries ==
    {<<RelativeTo(p, ret.out), fs[p].data>> :
        p \in {q \in DOMAIN fs : /\ Len(q) > Len(ret.out)
                                 /\ IsUnder(q, ret.out)
                                 /\ fs[q].kind # "dir"}}

\* e is a manifest entry: manifest.json at the root, holding JSON.
IsManifestEntry(e) == e[1] = <<MANIFEST_JSON>> /\ e[2][1] = "json"

\* The places in the trace where the manifest, and where the files, were
\* written.
ManifestWrites ==
    {i \in Events({"write"}) : ret.trace[i][2] = Append(ret.out, MANIFEST_JSON)}

\* The archive holds the manifest first if and only if it was asked for,
\* then the collected files, and nothing else.
ArchiveExact ==
    \A entries \in {ArchiveEntries} :
        IF call.include_manifest
        THEN /\ entries # <<>>
             /\ IsManifestEntry(entries[1])
             /\ Tail(entries) = FileEntries
        ELSE entries = FileEntries

\* The directory tree holds the manifest if and only if it was asked for,
\* written before any file, the collected files, and nothing else.
TreeExact ==
    \A entries \in {TreeEntries} :
        /\ {e \in entries : e[1] # <<MANIFEST_JSON>>}
               = {FileEntries[i] : i \in 1..Len(ret.files)}
        /\ (\E e \in entries : e[1] = <<MANIFEST_JSON>>) <=> call.include_manifest
        /\ \A e \in entries : e[1] = <<MANIFEST_JSON>> => IsManifestEntry(e)
        /\ call.include_manifest =>
               /\ ManifestWrites # {}
               /\ \A i \in ManifestWrites, j \in Events({"write"}) \ ManifestWrites :
                      i < j

\* The skill directory held SKILL.md alone and the manifest was asked
\* for: two entries, the manifest saying no scripts and no references.
OnlySkillFileCase ==
    (call.include_manifest /\ Descendants(pre, SkillDir) = {SkillFile}) =>
        IF call.format = "zip"
        THEN /\ Len(ArchiveEntries) = 2
             /\ ~ArchiveEntries[1][2][2].includes_scripts
             /\ ~ArchiveEntries[1][2][2].includes_references
        ELSE /\ Cardinality(TreeEntries) = 2
             /\ \A e \in TreeEntries :
                    e[1] = <<MANIFEST_JSON>> =>
                        ~e[2][2].includes_scripts /\ ~e[2][2].includes_references

\* C13 as stated: every artifact package_skill produced holds manifest.json
\* at its root exactly when the manifest was asked for, written first,
\* one entry per collected file at its relative path, and nothing else;
\* for SKILL.md alone with the manifest, two entries and both flags false.
C13_ArtifactExact ==
    Produced =>
        /\ IF call.format = "zip" THEN ArchiveExact ELSE TreeExact
        /\ OnlySkillFileCase

\* C13 as amended: the same for every artifact that is an archive or a
\* directory tree at a place where nothing was before the call.
C13_NewArtifactExact ==
    (Produced /\ (call.format = "zip" \/ ~Exists(pre, ret.out))) =>
        /\ IF call.format = "zip" THEN ArchiveExact ELSE TreeExact
        /\ OnlySkillFileCase

\* C13's case: an archive with the manifest made from a skill that has
\* scripts and references.
C13_Witness ==
    /\ Produced
    /\ call.format = "zip"
    /\ call.include_manifest
    /\ Len(ret.files) > 2
    /\ Len(ArchiveEntries) = Len(ret.files) + 1

(***************************************************************************)
(* Claims about the validator's entry point, under SpecMain.               *)
(***************************************************************************)
MainCalled == ret.op = "main"

\* The exit code of the same run with the flags quiet and verbose.
ExitWith(quiet, verbose) ==
    main(pre, platform, call.skill_path, call.strict, quiet, verbose).exit

\* C15: the exit code follows from the skill and the strict flag alone;
\* the same run with any other choice of --quiet and --verbose exits with
\* the same code.
C15_ExitCodeIgnoresQuietAndVerbose ==
    MainCalled =>
        \A quiet \in BOOLEAN, verbose \in BOOLEAN :
            ExitWith(quiet, verbose) = ret.exit

====
